---- MODULE Spec2Model ----
(***************************************************************************)
(* Model of the Inception blocks of tensorhub/layers/inception_v1.py       *)
(* (BasicLayer, ReductionLayer) and tensorhub/layers/inception_v2.py       *)
(* (DeepLayer, WideLayer).                                                 *)
(*                                                                         *)
(* One block instance is modelled: its construction (__init__), the lazy   *)
(* build, the forward pass (call), and the three ways a caller can reach   *)
(* them: block(x) (the keras.layers.Layer protocol: build on first use,    *)
(* then call), block.build(shape) and block.call(x).                       *)
(*                                                                         *)
(* Tensors are symbolic: a tensor is the input it was computed from, the   *)
(* chain of operator instances applied to it, and its shape.  Operator     *)
(* instances carry an identity (id): a new instance has new weights.       *)
(***************************************************************************)
EXTENDS Integers, Sequences, FiniteSets, TLC

VARIABLES
    kind,      \* the class of the instance
    phase,     \* "new", "constructed", or "failed" when __init__ raised
    self,      \* num_filters, act, strides, padding set by __init__
    built,     \* keras.layers.Layer.built
    attrs,     \* the sub-operator attributes build assigns
    created,   \* per attribute, how many instances build has constructed
    nextId,    \* identity of the next operator instance
    log        \* the invocations made so far and their outcomes

vars == <<kind, phase, self, built, attrs, created, nextId, log>>

---------------------------------------------------------------------------
(* Bounds of the model *)

\* number of invocations (block(x), block.build, block.call) on the instance
MaxOps == 3

---------------------------------------------------------------------------
(* Program constants *)

\* self.num_filters = 64 (both V1 blocks)
V1NumFilters == 64

\* num_filters=28 (default of the V2 blocks)
DefaultNumFilters == 28

\* self.strides = 1 (every block)
Strides == 1

\* a block padding with "valid" instead
Padding_valid == "valid"

\* self.padding = "same" (every block)
Padding == "same"

\* activation=relu (default of every block)
DefaultActivation == "relu"

---------------------------------------------------------------------------
(* Inputs *)

Kinds == {"BasicV1", "ReductionV1", "DeepV2", "WideV2"}

Activations == {DefaultActivation, "tanh"}

\* name=None, name="" and a real name
Names == {"None", "", "blk"}

NumFiltersArgs == {DefaultNumFilters, 3}

\* (batch, H, W, C); the last one is a rank-3 shape the framework rejects
InputShapes == {<<1, 32, 32, 3>>, <<2, 1, 4, 1>>, <<1, 32, 3>>}

Inputs ==
    {[data |-> "x", shape |-> s] : s \in InputShapes}
        \cup {[data |-> "y", shape |-> <<1, 32, 32, 3>>]}

NoInput == [data |-> "none", shape |-> <<>>]

---------------------------------------------------------------------------
(* Operator instances (keras.layers.Conv2D / keras.layers.MaxPool2D)       *)

AttrNames ==
    {"conv_block_a", "conv_block_b", "conv_block_c", "maxpool_block", "concatenate",
     "conv_1a", "conv_1b", "conv_1c", "conv_1d", "conv_3", "conv_5",
     "conv_1_3b", "conv_3_1b", "conv_1_3c1", "conv_3_1c1", "conv_1_3c2",
     "conv_3_1c2", "conv_3c", "conv_1_3c", "conv_3_1c", "maxpool_layer",
     "concat_layer"}

\* an attribute that has not been assigned
NoOp ==
    [id |-> 0, op |-> "unset", filters |-> 0, kernel |-> <<0, 0>>,
     strides |-> 0, padding |-> "none", act |-> "none"]

\* keras.layers.Conv2D(filters, kernel, activation=, strides=, padding=)
Conv2D(id, filters, kernel, act, strides, padding) ==
    [id |-> id, op |-> "Conv2D", filters |-> filters, kernel |-> kernel,
     strides |-> strides, padding |-> padding, act |-> act]

\* keras.layers.MaxPool2D(pool_size=, strides=, padding=)
MaxPool2D(id, pool_size, strides, padding) ==
    [id |-> id, op |-> "MaxPool2D", filters |-> 0, kernel |-> pool_size,
     strides |-> strides, padding |-> padding, act |-> "none"]

\* output extent of one spatial axis: "same" gives ceil(n / s),
\* "valid" gives floor((n - k) / s) + 1 (not positive when n < k)
OutDim(n, k, s, padding) ==
    IF padding = "same"
    THEN (n + s - 1) \div s
    ELSE IF n < k THEN 0 ELSE ((n - k) \div s) + 1

NoTensor == [chain |-> <<>>, shape |-> <<>>, data |-> "none"]

\* op(t): a rank-4 input gives a tensor, anything else a ValueError
ApplyOp(op, t) ==
    IF Len(t.shape) # 4
    THEN [status |-> "ValueError", tensor |-> NoTensor]
    ELSE LET h == OutDim(t.shape[2], op.kernel[1], op.strides, op.padding)
             w == OutDim(t.shape[3], op.kernel[2], op.strides, op.padding)
             c == IF op.op = "Conv2D" THEN op.filters ELSE t.shape[4]
         IN  IF h <= 0 \/ w <= 0 \/ c <= 0
             THEN [status |-> "ValueError", tensor |-> NoTensor]
             ELSE [status |-> "ok",
                   tensor |-> [chain |-> Append(t.chain, op.id),
                               shape |-> <<t.shape[1], h, w, c>>,
                               data  |-> t.data]]

NoOut == [parts |-> <<>>, shape |-> <<>>, data |-> "none"]

RECURSIVE SumChannels(_)
SumChannels(ts) ==
    IF ts = <<>> THEN 0 ELSE Head(ts).shape[4] + SumChannels(Tail(ts))

\* keras.layers.concatenate(inputs, axis=-1): the functional interface.
\* Its first parameter, inputs, is required: without it the call raises
\* TypeError.  With it, all axes but the last must agree.
concatenate(hasInputs, ts) ==
    IF ~hasInputs
    THEN [status |-> "TypeError", out |-> NoOut]
    ELSE IF \E i, j \in 1..Len(ts) :
                SubSeq(ts[i].shape, 1, 3) # SubSeq(ts[j].shape, 1, 3)
         THEN [status |-> "ValueError", out |-> NoOut]
         ELSE [status |-> "ok",
               out |-> [parts |-> [i \in 1..Len(ts) |-> ts[i].chain],
                        shape |-> <<ts[1].shape[1], ts[1].shape[2],
                                    ts[1].shape[3], SumChannels(ts)>>,
                        data  |-> ts[1].data]]

---------------------------------------------------------------------------
(* build: the statements of each class's build, in source order.           *)
(* sq marks strides=self.strides*self.strides.                             *)

BuildStep(attr, op, kernel, sq) ==
    [attr |-> attr, op |-> op, kernel |-> kernel, sq |-> sq]

\* self.<attr> = keras.layers.concatenate(axis=-1)
ConcatStep(attr) == BuildStep(attr, "concatenate", <<0, 0>>, FALSE)

BasicLayer_build ==
    << BuildStep("conv_block_a", "Conv2D", <<1, 1>>, FALSE),
       BuildStep("conv_block_b", "Conv2D", <<3, 3>>, FALSE),
       BuildStep("conv_block_c", "Conv2D", <<5, 5>>, FALSE),
       BuildStep("maxpool_block", "MaxPool2D", <<3, 3>>, FALSE),
       ConcatStep("concatenate") >>

ReductionLayer_build ==
    << BuildStep("conv_1a", "Conv2D", <<1, 1>>, TRUE),
       BuildStep("conv_1b", "Conv2D", <<1, 1>>, FALSE),
       BuildStep("conv_1c", "Conv2D", <<1, 1>>, FALSE),
       BuildStep("conv_1d", "Conv2D", <<1, 1>>, FALSE),
       BuildStep("conv_3", "Conv2D", <<3, 3>>, FALSE),
       BuildStep("conv_5", "Conv2D", <<5, 5>>, FALSE),
       BuildStep("maxpool_block", "MaxPool2D", <<3, 3>>, FALSE),
       ConcatStep("concatenate") >>

DeepLayer_build ==
    << BuildStep("conv_1a", "Conv2D", <<1, 1>>, TRUE),
       BuildStep("conv_1b", "Conv2D", <<1, 1>>, FALSE),
       BuildStep("conv_1_3b", "Conv2D", <<1, 3>>, FALSE),
       BuildStep("conv_3_1b", "Conv2D", <<3, 1>>, FALSE),
       BuildStep("conv_1c", "Conv2D", <<1, 1>>, FALSE),
       BuildStep("conv_1_3c1", "Conv2D", <<1, 3>>, FALSE),
       BuildStep("conv_3_1c1", "Conv2D", <<3, 1>>, FALSE),
       BuildStep("conv_1_3c2", "Conv2D", <<1, 3>>, FALSE),
       BuildStep("conv_3_1c2", "Conv2D", <<3, 1>>, FALSE),
       BuildStep("conv_1d", "Conv2D", <<1, 1>>, FALSE),
       BuildStep("maxpool_layer", "MaxPool2D", <<3, 3>>, FALSE) >>

WideLayer_build ==
    << BuildStep("conv_1a", "Conv2D", <<1, 1>>, TRUE),
       BuildStep("conv_1b", "Conv2D", <<1, 1>>, FALSE),
       BuildStep("conv_1_3b", "Conv2D", <<1, 3>>, FALSE),
       BuildStep("conv_3_1b", "Conv2D", <<3, 1>>, FALSE),
       BuildStep("conv_1c", "Conv2D", <<1, 1>>, FALSE),
       BuildStep("conv_3c", "Conv2D", <<3, 3>>, FALSE),
       BuildStep("conv_1_3c", "Conv2D", <<1, 3>>, FALSE),
       BuildStep("conv_3_1c", "Conv2D", <<3, 1>>, FALSE),
       BuildStep("conv_1d", "Conv2D", <<1, 1>>, FALSE),
       BuildStep("maxpool_layer", "MaxPool2D", <<3, 3>>, FALSE),
       ConcatStep("concat_layer") >>

BuildOf(k) ==
    CASE k = "BasicV1"     -> BasicLayer_build
      [] k = "ReductionV1" -> ReductionLayer_build
      [] k = "DeepV2"      -> DeepLayer_build
      [] k = "WideV2"      -> WideLayer_build

\* Runs the statements of build from statement i on.  st is
\* [attrs, created, nextId, status]; an exception stops the run and keeps
\* the assignments made before it.
RECURSIVE RunBuild(_, _, _, _)
RunBuild(steps, i, cfg, st) ==
    IF i > Len(steps) THEN st
    ELSE LET s == steps[i]
             strides == IF s.sq THEN cfg.strides * cfg.strides ELSE cfg.strides
         IN  IF s.op = "concatenate"
             THEN LET r == concatenate(FALSE, <<>>)
                  IN  IF r.status # "ok"
                      THEN [st EXCEPT !.status = r.status]
                      ELSE RunBuild(steps, i + 1, cfg, st)
             ELSE LET inst ==
                          IF s.op = "Conv2D"
                          THEN Conv2D(st.nextId, cfg.num_filters, s.kernel,
                                      cfg.act, strides, cfg.padding)
                          ELSE MaxPool2D(st.nextId, s.kernel, strides, cfg.padding)
                  IN  RunBuild(steps, i + 1, cfg,
                               [st EXCEPT !.attrs[s.attr] = inst,
                                          !.created[s.attr] = @ + 1,
                                          !.nextId = @ + 1])

---------------------------------------------------------------------------
(* call: the statements of each class's call, in source order.             *)
(* A step is  dst = self.<attr>(src);  the last statement concatenates     *)
(* the listed locals, through an attribute of the block or through the     *)
(* function keras.layers.concatenate.                                      *)

LocalNames ==
    {"x", "out_a", "out_b", "out_c", "out_d", "out_b_inter", "out_c_inter",
     "out_d_inter", "out_b1", "out_b2", "out_c1", "out_c2"}

CallStep(dst, attr, src) == [dst |-> dst, attr |-> attr, src |-> src]

BasicLayer_call ==
    [steps |-> << CallStep("out_a", "conv_block_a", "x"),
                  CallStep("out_b", "conv_block_b", "x"),
                  CallStep("out_c", "conv_block_a", "x"),
                  CallStep("out_d", "maxpool_block", "x") >>,
     how   |-> "attr",
     attr  |-> "concatenate",
     list  |-> <<"out_a", "out_b", "out_c", "out_d">>]

ReductionLayer_call ==
    [steps |-> << CallStep("out_a", "conv_1a", "x"),
                  CallStep("out_b_inter", "conv_1b", "x"),
                  CallStep("out_b", "conv_3", "out_b_inter"),
                  CallStep("out_c_inter", "conv_1c", "x"),
                  CallStep("out_c", "conv_5", "out_c_inter"),
                  CallStep("out_d_inter", "maxpool_block", "x"),
                  CallStep("out_d", "conv_1d", "out_d_inter") >>,
     how   |-> "attr",
     attr  |-> "concatenate",
     list  |-> <<"out_a", "out_b", "out_c", "out_d">>]

\* DeepLayer.call with the last step of branch C reusing conv_3_1c1
DeepLayer_call_reuse ==
    [steps |-> << CallStep("out_a", "conv_1a", "x"),
                  CallStep("out_b_inter", "conv_1b", "x"),
                  CallStep("out_b_inter", "conv_1_3b", "out_b_inter"),
                  CallStep("out_b", "conv_3_1b", "out_b_inter"),
                  CallStep("out_c_inter", "conv_1c", "x"),
                  CallStep("out_c_inter", "conv_1_3c1", "out_c_inter"),
                  CallStep("out_c_inter", "conv_3_1c1", "out_c_inter"),
                  CallStep("out_c_inter", "conv_1_3c2", "out_c_inter"),
                  CallStep("out_c", "conv_3_1c1", "out_c_inter"),
                  CallStep("out_d_inter", "maxpool_layer", "x"),
                  CallStep("out_d", "conv_1d", "out_d_inter") >>,
     how   |-> "function",
     attr  |-> "none",
     list  |-> <<"out_a", "out_b", "out_c", "out_d">>]

DeepLayer_call ==
    [steps |-> << CallStep("out_a", "conv_1a", "x"),
                  CallStep("out_b_inter", "conv_1b", "x"),
                  CallStep("out_b_inter", "conv_1_3b", "out_b_inter"),
                  CallStep("out_b", "conv_3_1b", "out_b_inter"),
                  CallStep("out_c_inter", "conv_1c", "x"),
                  CallStep("out_c_inter", "conv_1_3c1", "out_c_inter"),
                  CallStep("out_c_inter", "conv_3_1c1", "out_c_inter"),
                  CallStep("out_c_inter", "conv_1_3c2", "out_c_inter"),
                  CallStep("out_c", "conv_3_1c2", "out_c_inter"),
                  CallStep("out_d_inter", "maxpool_layer", "x"),
                  CallStep("out_d", "conv_1d", "out_d_inter") >>,
     how   |-> "function",
     attr  |-> "none",
     list  |-> <<"out_a", "out_b", "out_c", "out_d">>]

WideLayer_call ==
    [steps |-> << CallStep("out_a", "conv_1a", "x"),
                  CallStep("out_b_inter", "conv_1b", "x"),
                  CallStep("out_b1", "conv_1_3b", "out_b_inter"),
                  CallStep("out_b2", "conv_3_1b", "out_b_inter"),
                  CallStep("out_c_inter", "conv_1c", "x"),
                  CallStep("out_c_inter", "conv_3c", "out_c_inter"),
                  CallStep("out_c1", "conv_1_3c", "out_c_inter"),
                  CallStep("out_c2", "conv_3_1c", "out_c_inter"),
                  CallStep("out_d_inter", "maxpool_layer", "x"),
                  CallStep("out_d", "conv_1d", "out_d_inter") >>,
     how   |-> "attr",
     attr  |-> "concat_layer",
     list  |-> <<"out_a", "out_b1", "out_b2", "out_c1", "out_c1", "out_d">>]

CallOf(k) ==
    CASE k = "BasicV1"     -> BasicLayer_call
      [] k = "ReductionV1" -> ReductionLayer_call
      [] k = "DeepV2"      -> DeepLayer_call
      [] k = "WideV2"      -> WideLayer_call

\* Runs the steps of call from step i on.  st is [env, applied, locals,
\* status]: the local variables, the attributes applied so far (in order),
\* the tensors computed so far (in order).  Reading an attribute that was
\* never assigned raises AttributeError; an operator may raise ValueError.
RECURSIVE RunSteps(_, _, _, _)
RunSteps(steps, i, at, st) ==
    IF i > Len(steps) THEN st
    ELSE LET s == steps[i]
         IN  IF at[s.attr] = NoOp
             THEN [st EXCEPT !.status = "AttributeError"]
             ELSE LET r == ApplyOp(at[s.attr], st.env[s.src])
                  IN  IF r.status # "ok"
                      THEN [st EXCEPT !.status = r.status,
                                      !.applied = Append(@, s.attr)]
                      ELSE RunSteps(steps, i + 1, at,
                                    [st EXCEPT !.env[s.dst] = r.tensor,
                                               !.applied = Append(@, s.attr),
                                               !.locals = Append(@, r.tensor)])

\* The body of call on input x with the block's attributes at:
\* [status, applied, locals, out].
RunCall(k, at, x) ==
    LET c  == CallOf(k)
        e0 == [n \in LocalNames |->
                  IF n = "x"
                  THEN [chain |-> <<>>, shape |-> x.shape, data |-> x.data]
                  ELSE NoTensor]
        r  == RunSteps(c.steps, 1, at,
                       [env |-> e0, applied |-> <<>>, locals |-> <<>>,
                        status |-> "ok"])
        ts == [i \in 1..Len(c.list) |-> r.env[c.list[i]]]
        cc == IF c.how = "attr" /\ at[c.attr] = NoOp
              THEN [status |-> "AttributeError", out |-> NoOut]
              ELSE concatenate(TRUE, ts)
    IN  IF r.status # "ok"
        THEN [status |-> r.status, applied |-> r.applied,
              locals |-> r.locals, out |-> NoOut]
        ELSE [status |-> cc.status, applied |-> r.applied,
              locals |-> r.locals, out |-> cc.out]

---------------------------------------------------------------------------
(* The block instance                                                      *)

\* class X(keras.layers.Layer) for every class but ReductionLayer, which
\* has no base class
HasLayerBase(k) == k # "ReductionV1"

\* the V1 constructors take no num_filters argument
TakesNumFilters(k) == k \in {"DeepV2", "WideV2"}

\* Python truth value of the name argument (if name:)
Truthy(nm) == nm \notin {"None", ""}

NoSelf == [num_filters |-> 0, act |-> "none", strides |-> 0, padding |-> "none"]

Entry(op, x, status, applied, locals, out, ranBuild) ==
    [op |-> op, x |-> x, status |-> status, applied |-> applied,
     locals |-> locals, out |-> out, ranBuild |-> ranBuild]

Init ==
    /\ kind = "none"
    /\ phase = "new"
    /\ self = NoSelf
    /\ built = FALSE
    /\ attrs = [a \in AttrNames |-> NoOp]
    /\ created = [a \in AttrNames |-> 0]
    /\ nextId = 1
    /\ log = <<>>

\* X(num_filters=nf, activation=act, name=nm): __init__.  The name only
\* reaches the base class's constructor, which is all that is kept of it.
\* super().__init__(name=name) reaches object.__init__ when the class has
\* no base, and object.__init__ takes no keyword: TypeError, no instance.
Construct(k, nf, act, nm) ==
    /\ phase = "new"
    /\ kind' = k
    /\ IF Truthy(nm) /\ ~HasLayerBase(k)
       THEN /\ phase' = "failed"
            /\ UNCHANGED self
       ELSE /\ phase' = "constructed"
            /\ self' = [num_filters |-> IF TakesNumFilters(k) THEN nf ELSE V1NumFilters,
                        act         |-> act,
                        strides     |-> Strides,
                        padding     |-> Padding]
    /\ UNCHANGED <<built, attrs, created, nextId, log>>

\* block(x): keras.layers.Layer.__call__ runs build(x.shape) when the
\* layer is not built yet, marks it built once build has returned, then
\* runs call(x).  An exception in build leaves the layer unbuilt.  An
\* instance of a class without the base is not callable: TypeError.
Forward(x) ==
    /\ phase = "constructed"
    /\ Len(log) < MaxOps
    /\ IF ~HasLayerBase(kind)
       THEN /\ log' = Append(log, Entry("forward", x, "TypeError", <<>>, <<>>, NoOut, FALSE))
            /\ UNCHANGED <<built, attrs, created, nextId>>
       ELSE LET st0 == [attrs |-> attrs, created |-> created,
                        nextId |-> nextId, status |-> "ok"]
                b   == IF built THEN st0
                       ELSE RunBuild(BuildOf(kind), 1, self, st0)
                r   == RunCall(kind, b.attrs, x)
            IN  /\ attrs' = b.attrs
                /\ created' = b.created
                /\ nextId' = b.nextId
                /\ IF b.status # "ok"
                   THEN /\ built' = built
                        /\ log' = Append(log, Entry("forward", x, b.status, <<>>,
                                                    <<>>, NoOut, ~built))
                   ELSE /\ built' = TRUE
                        /\ log' = Append(log, Entry("forward", x, r.status, r.applied,
                                                    r.locals, r.out, ~built))
    /\ UNCHANGED <<kind, phase, self>>

\* block.build(shape), called by the user.  The argument is not read.
\* Whether the framework marks the layer built after a direct build that
\* returns depends on the framework version: both outcomes are kept.
Build(shape) ==
    /\ phase = "constructed"
    /\ Len(log) < MaxOps
    /\ LET b == RunBuild(BuildOf(kind), 1, self,
                         [attrs |-> attrs, created |-> created,
                          nextId |-> nextId, status |-> "ok"])
       IN  /\ attrs' = b.attrs
           /\ created' = b.created
           /\ nextId' = b.nextId
           /\ \E nb \in {built, HasLayerBase(kind) /\ b.status = "ok"} :
                  built' = (built \/ nb)
           /\ log' = Append(log, Entry("build", NoInput, b.status, <<>>, <<>>,
                                       NoOut, TRUE))
    /\ UNCHANGED <<kind, phase, self>>

\* block.call(x), called by the user: the body of call, no build.
Call(x) ==
    /\ phase = "constructed"
    /\ Len(log) < MaxOps
    /\ LET r == RunCall(kind, attrs, x)
       IN  log' = Append(log, Entry("call", x, r.status, r.applied, r.locals,
                                    r.out, FALSE))
    /\ UNCHANGED <<kind, phase, self, built, attrs, created, nextId>>

Next ==
    \/ \E k \in Kinds, nf \in NumFiltersArgs, act \in Activations, nm \in Names :
           Construct(k, nf, act, nm)
    \/ \E x \in Inputs : Forward(x)
    \/ \E s \in InputShapes : Build(s)
    \/ \E x \in Inputs : Call(x)

Spec == Init /\ [][Next]_vars

---------------------------------------------------------------------------
(* Vocabulary of the properties                                            *)

Valid(x) == Len(x.shape) = 4

HasLast == Len(log) > 0

Last == log[Len(log)]

\* the attribute holding the operator instance with this id
AttrOfId(id) == CHOOSE a \in AttrNames : attrs[a].id = id

\* what a chain of operator ids is made of: <<op, kernel>> per instance
KindChain(chain) ==
    [j \in 1..Len(chain) |->
        <<attrs[AttrOfId(chain[j])].op, attrs[AttrOfId(chain[j])].kernel>>]

KindChains(parts) == [i \in 1..Len(parts) |-> KindChain(parts[i])]

Conv(kh, kw) == <<"Conv2D", <<kh, kw>>>>

Pool3 == <<"MaxPool2D", <<3, 3>>>>

Count(a, seq) == Cardinality({j \in 1..Len(seq) : seq[j] = a})

\* the operators build creates (all but the concatenation)
BuiltAttrs(k) ==
    {BuildOf(k)[j].attr : j \in {n \in 1..Len(BuildOf(k)) : BuildOf(k)[n].op # "concatenate"}}

ConvAttrs(k) ==
    {BuildOf(k)[j].attr : j \in {n \in 1..Len(BuildOf(k)) : BuildOf(k)[n].op = "Conv2D"}}

SameSpatial(shape, x) == Len(shape) = 4 /\ SubSeq(shape, 1, 3) = SubSeq(x.shape, 1, 3)

---------------------------------------------------------------------------
(* C1 *)

\* C1: a forward of the V1 Basic block on a rank-4 input returns the
\* concatenation [1x1 conv(x), 3x3 conv(x), 5x5 conv(x), 3x3 max-pool(x)],
\* each of the four operators build created being applied exactly once.
C1_BasicForwardWiring ==
    (kind = "BasicV1" /\ HasLast /\ Last.op = "forward" /\ Valid(Last.x)) =>
        /\ Last.status = "ok"
        /\ KindChains(Last.out.parts)
               = << <<Conv(1, 1)>>, <<Conv(3, 3)>>, <<Conv(5, 5)>>, <<Pool3>> >>
        /\ \A a \in BuiltAttrs("BasicV1") : Count(a, Last.applied) = 1

---------------------------------------------------------------------------
(* C2 *)

\* C2: a V1 Basic block with the default activation maps every input
\* (batch, H, W, C) to an output of shape (batch, H, W, 256).
C2_BasicShape256 ==
    (kind = "BasicV1" /\ self.act = DefaultActivation
        /\ HasLast /\ Last.op = "forward" /\ Valid(Last.x)) =>
        /\ Last.status = "ok"
        /\ Last.out.shape = <<Last.x.shape[1], Last.x.shape[2], Last.x.shape[3], 256>>

---------------------------------------------------------------------------
(* C3 *)

OnlyForwards == \A i \in 1..Len(log) : log[i].op = "forward"

\* C3: over any sequence of forward invocations on a block (failed ones
\* included) build runs on the first one and never again, and every
\* sub-operator is created at most once.
C3_BuiltOnce ==
    (HasLayerBase(kind) /\ OnlyForwards) =>
        /\ \A a \in AttrNames : created[a] <= 1
        /\ \A i \in 1..Len(log) : log[i].ranBuild <=> (i = 1)

---------------------------------------------------------------------------
(* C4 *)

\* C4: every block type can be constructed from an activation and an
\* optional name, and its first forward on a rank-4 input runs build and
\* returns an output.
C4_SameCapabilities ==
    /\ phase # "failed"
    /\ (HasLast /\ log[1].op = "forward" /\ Valid(log[1].x)) =>
           (log[1].ranBuild /\ log[1].status = "ok")

---------------------------------------------------------------------------
(* C5 *)

\* C5: a forward of the V2 Wide block on a rank-4 input returns the
\* concatenation [A, B1, B2, C1, C1, D] (C1 twice, C2 computed but left
\* out), which has 6 x num_filters channels.
C5_WideForwardWiring ==
    (kind = "WideV2" /\ HasLast /\ Last.op = "forward" /\ Valid(Last.x)) =>
        /\ Last.status = "ok"
        /\ KindChains(Last.out.parts)
               = << <<Conv(1, 1)>>,
                    <<Conv(1, 1), Conv(1, 3)>>,
                    <<Conv(1, 1), Conv(3, 1)>>,
                    <<Conv(1, 1), Conv(3, 3), Conv(1, 3)>>,
                    <<Conv(1, 1), Conv(3, 3), Conv(1, 3)>>,
                    <<Pool3, Conv(1, 1)>> >>
        /\ Last.out.parts[4] = Last.out.parts[5]
        /\ Count("conv_3_1c", Last.applied) = 1
        /\ Last.out.shape[4] = 6 * self.num_filters

---------------------------------------------------------------------------
(* C6 *)

\* C6: a forward of the V2 Deep block on a rank-4 input returns the
\* concatenation [A, B, C, D] with A = 1x1(x), B = 3x1(1x3(1x1(x))),
\* C = 3x1(1x3(3x1(1x3(1x1(x))))) and D = 1x1(maxpool(x)); no operator
\* instance occurs twice, each of the ten convolutions build created is
\* applied exactly once, and the output has 4 x num_filters channels
\* (112 for 28 filters).
C6_DeepForwardWiring ==
    (kind = "DeepV2" /\ HasLast /\ Last.op = "forward" /\ Valid(Last.x)) =>
        /\ Last.status = "ok"
        /\ KindChains(Last.out.parts)
               = << <<Conv(1, 1)>>,
                    <<Conv(1, 1), Conv(1, 3), Conv(3, 1)>>,
                    <<Conv(1, 1), Conv(1, 3), Conv(3, 1), Conv(1, 3), Conv(3, 1)>>,
                    <<Pool3, Conv(1, 1)>> >>
        /\ \A i, j \in 1..4 : \A m \in 1..Len(Last.out.parts[i]) :
               \A n \in 1..Len(Last.out.parts[j]) :
                   (Last.out.parts[i][m] = Last.out.parts[j][n]) => (i = j /\ m = n)
        /\ Cardinality(ConvAttrs("DeepV2")) = 10
        /\ \A a \in ConvAttrs("DeepV2") : Count(a, Last.applied) = 1
        /\ Last.out.data = Last.x.data
        /\ Last.out.shape[4] = 4 * self.num_filters
        /\ (self.num_filters = DefaultNumFilters => Last.out.shape[4] = 112)

\* a Deep block with the default 28 filters has returned from a forward
C6_Witness ==
    /\ kind = "DeepV2" /\ self.num_filters = DefaultNumFilters
    /\ HasLast /\ Last.op = "forward" /\ Last.status = "ok"
    /\ Last.x.shape = <<1, 32, 32, 3>>
    /\ Last.out.shape = <<1, 32, 32, 112>>

---------------------------------------------------------------------------
(* C7 *)

\* C7: a forward of the V1 Reduction block on a rank-4 input returns the
\* concatenation [1x1(x), 3x3(1x1(x)), 5x5(1x1(x)), 1x1(maxpool(x))], the
\* four 1x1 convolutions being four distinct operators, with 256 channels.
C7_ReductionForwardWiring ==
    (kind = "ReductionV1" /\ HasLast /\ Last.op = "forward" /\ Valid(Last.x)) =>
        /\ Last.status = "ok"
        /\ KindChains(Last.out.parts)
               = << <<Conv(1, 1)>>,
                    <<Conv(1, 1), Conv(3, 3)>>,
                    <<Conv(1, 1), Conv(5, 5)>>,
                    <<Pool3, Conv(1, 1)>> >>
        /\ Cardinality({Last.out.parts[1][1], Last.out.parts[2][1],
                        Last.out.parts[3][1], Last.out.parts[4][2]}) = 4
        /\ Last.out.shape[4] = 256

---------------------------------------------------------------------------
(* C8 *)

---------------------------------------------------------------------------
(* C9 *)

\* C9: two consecutive forwards of a block on the same rank-4 input both
\* return, return the same output, and the second one builds nothing.
C9_ForwardIdempotent ==
    \A i \in 1..(Len(log) - 1) :
        (log[i].op = "forward" /\ log[i + 1].op = "forward"
            /\ log[i].x = log[i + 1].x /\ Valid(log[i].x)) =>
            /\ log[i].status = "ok"
            /\ log[i + 1].status = "ok"
            /\ log[i + 1].out = log[i].out
            /\ ~log[i + 1].ranBuild

---------------------------------------------------------------------------
(* C10 *)

\* C10: the first forward of a V1 Basic block on a rank-4 input raises
\* nothing: build returns with the three convolutions and the max-pool
\* assigned, the block is built, and the forward returns an output.
C10_BasicNoErrorPath ==
    (kind = "BasicV1" /\ HasLast /\ log[1].op = "forward" /\ Valid(log[1].x)) =>
        /\ log[1].status = "ok"
        /\ built
        /\ \A a \in BuiltAttrs("BasicV1") : attrs[a] # NoOp

====
